---- MODULE Spec2Model ----
(***************************************************************************)
(* Model of src/ds8r/ds8r.py: the DS8R controller class.                   *)
(*                                                                         *)
(* State: the class-level DLL handle (DS8R._dll, DS8R._dll_loaded), the    *)
(* eight instance attributes of the controller the caller holds, the       *)
(* configuration resident on the device behind D128RProxy.dll, and a       *)
(* record of the last method call (its arguments, the state it started     *)
(* from, the device calls it made and how it ended).                       *)
(*                                                                         *)
(* Attribute values are integers.  int(x) of an integer is x, and          *)
(* ctypes.c_long (32 bits under WinDLL) keeps every integer in             *)
(* -2^31 .. 2^31-1, which is every integer the model can hold, so the      *)
(* marshalling of lines 187-194 preserves each value drawn here.           *)
(***************************************************************************)
EXTENDS Integers, Sequences, FiniteSets, TLC

VARIABLES
    dll_loaded,   \* DS8R._dll_loaded
    dll,          \* DS8R._dll: the path the handle was loaded from, or NoDll
    defined,      \* _define_functions ran to its end (argtypes/restype set)
    loadCount,    \* number of ctypes.WinDLL calls that returned a handle
    hasCtl,       \* the caller holds a constructed controller
    cfg,          \* the controller's eight attributes
    dev,          \* the configuration resident on the device
    op,           \* name of the last method called
    arg,          \* its boolean argument (force / enabled / verbose)
    dllArg,       \* the dll_path argument of the last __init__
    result,       \* "ok" or the exception the last call raised
    calls,        \* the device calls the last method made, in order
    ret,          \* the dict returned by the last get_state
    preCfg,       \* cfg when the last method was called
    preDev,       \* dev when the last method was called
    prevFailed,   \* the call before the last one was a run() that raised ValueError
    defineCount,  \* number of _define_functions calls that ran to their end
    thr,          \* per constructing thread: position in __init__, arguments
    pcA,          \* position of the first controller inside run()
    cfgB,         \* the eight attributes of a second controller
    interleaved   \* the second controller called DGD128_Set since the first
                  \* controller's run() made its own DGD128_Set call

vars == <<dll_loaded, dll, defined, loadCount, hasCtl, cfg, dev,
          op, arg, dllArg, result, calls, ret, preCfg, preDev, prevFailed,
          defineCount, thr, pcA, cfgB, interleaved>>

----------------------------------------------------------------------------
\* Class constants, lines 112-120.
MODE_MONOPHASIC == 1
MODE_BIPHASIC == 2
POLARITY_POSITIVE == 1
POLARITY_NEGATIVE == 2
POLARITY_ALTERNATING == 3
SOURCE_INTERNAL == 1
SOURCE_EXTERNAL == 2

\* Local variable of run(), line 352.
safe_limit == 10

\* The limit the error message of run() states in mA: 10.0 mA, raw 100.
InterlockLimit == 100

\* The safe limit the docstrings state: 12.4 mA, raw 124.
SafetyThreshold == 124

Fields == {"mode", "polarity", "source", "demand",
           "pulse_width", "dwell", "recovery", "enabled"}

\* Default arguments of __init__, lines 122-123.
Defaults ==
    [mode |-> MODE_MONOPHASIC, polarity |-> POLARITY_POSITIVE,
     source |-> SOURCE_INTERNAL, demand |-> 20, pulse_width |-> 100,
     dwell |-> 1, recovery |-> 100, enabled |-> 1]

\* A fresh ctypes.c_long() holds 0 (lines 279-286); also the value of the
\* attribute variables while no controller exists.
ZeroCfg ==
    [mode |-> 0, polarity |-> 0, source |-> 0, demand |-> 0, pulse_width |-> 0,
     dwell |-> 0, recovery |-> 0, enabled |-> 0]

\* The documented domain of each attribute (class docstring, lines 14-62).
InDomain(c) ==
    /\ c.mode \in {MODE_MONOPHASIC, MODE_BIPHASIC}
    /\ c.polarity \in {POLARITY_POSITIVE, POLARITY_NEGATIVE, POLARITY_ALTERNATING}
    /\ c.source \in {SOURCE_INTERNAL, SOURCE_EXTERNAL}
    /\ c.demand \in 1..150
    /\ c.pulse_width \in 50..2000 /\ c.pulse_width % 10 = 0
    /\ c.dwell \in 1..990
    /\ c.recovery \in 10..100
    /\ c.enabled \in {0, 1}

----------------------------------------------------------------------------
\* Values a caller passes to __init__ or assigns to an attribute.  Nothing in
\* the class restricts them; each set holds documented values and, for demand,
\* the value one step above the documented domain.
FieldVals(f) ==
    CASE f = "mode"        -> {MODE_MONOPHASIC, MODE_BIPHASIC}
      [] f = "polarity"    -> {POLARITY_POSITIVE}
      [] f = "source"      -> {SOURCE_INTERNAL}
      [] f = "demand"      -> {10, 11, 20, 100, 101, 124, 125, 150, 151}
      [] f = "pulse_width" -> {100}
      [] f = "dwell"       -> {1}
      [] f = "recovery"    -> {100}
      [] f = "enabled"     -> {0, 1}

Configs ==
    [mode : FieldVals("mode"), polarity : FieldVals("polarity"),
     source : FieldVals("source"), demand : FieldVals("demand"),
     pulse_width : FieldVals("pulse_width"), dwell : FieldVals("dwell"),
     recovery : FieldVals("recovery"), enabled : FieldVals("enabled")]

\* Keyword arguments given to __init__: none, or some.
CtorConfigs ==
    {Defaults, [Defaults EXCEPT !.demand = 125, !.mode = MODE_BIPHASIC]}

\* What the device holds when the process starts: left by the front panel, by
\* another program or by an earlier run.
InitialDevice ==
    {Defaults, [Defaults EXCEPT !.demand = 150, !.mode = MODE_BIPHASIC, !.enabled = 0]}

\* Status codes DGD128_Set / DGD128_Get / DGD128_Trigger return.
Statuses == {-1, 0, 1}

\* dll_path arguments: None, and paths of four kinds of file.
NoDll == "NoDll"
DllPaths == {"None", "other.dll", "missing.dll", "corrupt.dll", "nosyms.dll"}

\* Cap on the number of loads the model follows.
MaxLoads == 2

\* Threads that construct a controller at the same time.
NumThreads == 2
Threads == 1..NumThreads

----------------------------------------------------------------------------
\* Lines 135-137: None stands for D128RProxy.dll next to the script.
ResolvePath(p) == IF p = "None" THEN "D128RProxy.dll" ELSE p

\* Line 138, os.path.exists.
FileExists(p) == p # "missing.dll"

\* Line 141, ctypes.WinDLL: raises OSError for a file that is not a loadable DLL.
Loadable(p) == p # "corrupt.dll"

\* Attribute lookup of DGD128_Set / DGD128_Get / DGD128_Trigger on the handle
\* (lines 149, 162, 175, 197, 225, 289): AttributeError when not exported.
HasEntryPoints(h) == h \notin {NoDll, "nosyms.dll"}

\* Line 134: the load is attempted when the class flag is not set.
NeedsLoad_Always(loaded) == TRUE
NeedsLoad(loaded) == ~loaded

\* Lines 187-194: the eight arguments passed to DGD128_Set.
UploadArgs(c) ==
    [mode |-> c.mode, polarity |-> c.polarity, source |-> c.source,
     demand |-> c.demand, pulse_width |-> c.pulse_width, dwell |-> c.dwell,
     recovery |-> c.recovery, enabled |-> c.enabled]

\* DGD128_Set (line 197): the device stores the eight values it is sent.
DeviceSet(d, a) == a

\* DGD128_Get (line 289): the device reports its resident configuration.
DeviceGet(d) == d

\* Lines 301-310: the state dict built from the out parameters.
StateDict(reported) ==
    [mode |-> reported.mode, polarity |-> reported.polarity,
     source |-> reported.source, demand |-> reported.demand,
     pulse_width |-> reported.pulse_width, dwell |-> reported.dwell,
     recovery |-> reported.recovery, enabled |-> reported.enabled]

\* Lines 313-320: the attributes after get_state, from the old ones and the dict.
UpdateFromState_KeepEnabled(c, state) == [state EXCEPT !.enabled = c.enabled]
UpdateFromState(c, state) ==
    [mode |-> state.mode, polarity |-> state.polarity, source |-> state.source,
     demand |-> state.demand, pulse_width |-> state.pulse_width,
     dwell |-> state.dwell, recovery |-> state.recovery, enabled |-> state.enabled]

\* Line 249: self.enabled = 1 if enabled else 0.
EnabledValue_Inverted(flag) == IF flag THEN 0 ELSE 1
EnabledValue(flag) == IF flag THEN 1 ELSE 0

\* Line 353: the condition under which run() uploads and triggers.
InterlockPasses_Unchecked(c, force) == TRUE
InterlockPasses_IgnoreForce(c, force) == c.demand <= safe_limit
InterlockPasses(c, force) == c.demand <= safe_limit \/ force

\* Lines 208-212 and 227-231: the status code a device call returns is printed
\* and never turned into an exception.
StatusOutcome_RaiseOnNonZero(s) == IF s = 0 THEN "ok" ELSE "OSError"
StatusOutcome(s) == "ok"

\* Records of device calls.  args: the values sent (set), the values reported
\* (get), the configuration resident on the device when the pulse fires
\* (trigger).
SetCall(a, s) == [fn |-> "set", args |-> a, status |-> s]
GetCall(r, s) == [fn |-> "get", args |-> r, status |-> s]
TriggerCall(d, s) == [fn |-> "trigger", args |-> d, status |-> s]

----------------------------------------------------------------------------
\* Process start: class attributes as in lines 108-109, no controller yet.
Init ==
    /\ dll_loaded = FALSE
    /\ dll = NoDll
    /\ defined = FALSE
    /\ loadCount = 0
    /\ hasCtl = FALSE
    /\ cfg = ZeroCfg
    /\ dev \in InitialDevice
    /\ op = "start"
    /\ arg = FALSE
    /\ dllArg = NoDll
    /\ result = "ok"
    /\ calls = <<>>
    /\ ret = ZeroCfg
    /\ preCfg = ZeroCfg
    /\ preDev = dev
    /\ prevFailed = FALSE
    /\ defineCount = 0
    /\ thr = [t \in Threads |-> [pc |-> "none", path |-> NoDll, cfg |-> ZeroCfg]]
    /\ pcA = "idle"
    /\ cfgB = ZeroCfg
    /\ interleaved = FALSE

\* What every method call records about itself.
Called(name, a) ==
    /\ op' = name
    /\ arg' = a
    /\ preCfg' = cfg
    /\ preDev' = dev
    /\ prevFailed' = (op = "run" /\ result = "ValueError")

\* One caller, one controller, one call at a time.
OneCaller == UNCHANGED <<thr, pcA, cfgB, interleaved>>

\* A method other than get_state returns nothing and takes no dll_path.
NoReturn == ret' = ZeroCfg /\ dllArg' = NoDll

\* DS8R.__init__, lines 122-145, with _define_functions, lines 147-176.
\* A constructor that raises gives the caller no object: the caller keeps the
\* controller it had.
Construct(c, p) ==
    /\ loadCount < MaxLoads
    /\ Called("__init__", FALSE)
    /\ OneCaller
    /\ dllArg' = p
    /\ calls' = <<>>
    /\ ret' = ZeroCfg
    /\ UNCHANGED dev
    /\ IF ~NeedsLoad(dll_loaded)
       THEN /\ result' = "ok"
            /\ hasCtl' = TRUE
            /\ cfg' = c
            /\ UNCHANGED <<dll_loaded, dll, defined, loadCount, defineCount>>
       ELSE IF ~FileExists(ResolvePath(p))
       THEN /\ result' = "FileNotFoundError"
            /\ UNCHANGED <<dll_loaded, dll, defined, loadCount, defineCount, hasCtl, cfg>>
       ELSE IF ~Loadable(ResolvePath(p))
       THEN /\ result' = "OSError"
            /\ UNCHANGED <<dll_loaded, dll, defined, loadCount, defineCount, hasCtl, cfg>>
       ELSE /\ dll' = ResolvePath(p)
            /\ dll_loaded' = TRUE
            /\ loadCount' = loadCount + 1
            /\ IF HasEntryPoints(ResolvePath(p))
               THEN /\ defined' = TRUE
                    /\ defineCount' = defineCount + 1
                    /\ result' = "ok"
                    /\ hasCtl' = TRUE
                    /\ cfg' = c
               ELSE /\ result' = "AttributeError"
                    /\ UNCHANGED <<defined, defineCount, hasCtl, cfg>>

\* Assignment written as a property setter that also sends the new
\* configuration to the device.
Assign_Applies(f, v) ==
    /\ hasCtl
    /\ Called("assign", FALSE)
    /\ OneCaller
    /\ cfg' = [cfg EXCEPT ![f] = v]
    /\ result' = "ok"
    /\ IF HasEntryPoints(dll)
       THEN /\ calls' = <<SetCall(UploadArgs(cfg'), 0)>>
            /\ dev' = DeviceSet(dev, UploadArgs(cfg'))
       ELSE /\ calls' = <<>>
            /\ UNCHANGED dev
    /\ UNCHANGED <<dll_loaded, dll, defined, loadCount, defineCount, hasCtl>>
    /\ NoReturn

\* Assignment to one attribute of the controller (device.demand = 20).
Assign(f, v) ==
    /\ hasCtl
    /\ Called("assign", FALSE)
    /\ OneCaller
    /\ cfg' = [cfg EXCEPT ![f] = v]
    /\ result' = "ok"
    /\ calls' = <<>>
    /\ UNCHANGED <<dll_loaded, dll, defined, loadCount, defineCount, hasCtl, dev>>
    /\ NoReturn

\* DS8R.upload_parameters, lines 178-215.
upload_parameters ==
    /\ hasCtl
    /\ Called("upload_parameters", FALSE)
    /\ OneCaller
    /\ IF HasEntryPoints(dll)
       THEN \E s \in Statuses :
               /\ calls' = <<SetCall(UploadArgs(cfg), s)>>
               /\ dev' = DeviceSet(dev, UploadArgs(cfg))
               /\ result' = StatusOutcome(s)
       ELSE /\ calls' = <<>>
            /\ result' = "AttributeError"
            /\ UNCHANGED dev
    /\ UNCHANGED <<dll_loaded, dll, defined, loadCount, defineCount, hasCtl, cfg>>
    /\ NoReturn

\* trigger_pulse() that sends the local configuration before firing.
trigger_pulse_Uploads ==
    /\ hasCtl
    /\ Called("trigger_pulse", FALSE)
    /\ OneCaller
    /\ IF HasEntryPoints(dll)
       THEN \E s \in Statuses :
               /\ calls' = <<SetCall(UploadArgs(cfg), s),
                             TriggerCall(DeviceSet(dev, UploadArgs(cfg)), s)>>
               /\ dev' = DeviceSet(dev, UploadArgs(cfg))
               /\ result' = StatusOutcome(s)
       ELSE /\ calls' = <<>>
            /\ result' = "AttributeError"
            /\ UNCHANGED dev
    /\ UNCHANGED <<dll_loaded, dll, defined, loadCount, defineCount, hasCtl, cfg>>
    /\ NoReturn

\* DS8R.trigger_pulse, lines 217-234.
trigger_pulse ==
    /\ hasCtl
    /\ Called("trigger_pulse", FALSE)
    /\ OneCaller
    /\ IF HasEntryPoints(dll)
       THEN \E s \in Statuses :
               /\ calls' = <<TriggerCall(dev, s)>>
               /\ result' = StatusOutcome(s)
       ELSE /\ calls' = <<>>
            /\ result' = "AttributeError"
    /\ UNCHANGED <<dll_loaded, dll, defined, loadCount, defineCount, hasCtl, cfg, dev>>
    /\ NoReturn

\* DS8R.set_enabled, lines 236-258: the attribute is written before the upload.
set_enabled(enabled) ==
    /\ hasCtl
    /\ Called("set_enabled", enabled)
    /\ OneCaller
    /\ cfg' = [cfg EXCEPT !.enabled = EnabledValue(enabled)]
    /\ IF HasEntryPoints(dll)
       THEN \E s \in Statuses :
               /\ calls' = <<SetCall(UploadArgs(cfg'), s)>>
               /\ dev' = DeviceSet(dev, UploadArgs(cfg'))
               /\ result' = StatusOutcome(s)
       ELSE /\ calls' = <<>>
            /\ result' = "AttributeError"
            /\ UNCHANGED dev
    /\ UNCHANGED <<dll_loaded, dll, defined, loadCount, defineCount, hasCtl>>
    /\ NoReturn

\* Lines 277-329: what get_state(verbose) does on attributes c and device d
\* when DGD128_Get returns status s.  printed: the number of lines the
\* verbose branch (lines 323-327) writes.
GetStateOutcome_VerboseSkipsUpdate(verbose, c, d, s) ==
    LET state == StateDict(DeviceGet(d))
    IN  [calls   |-> <<GetCall(DeviceGet(d), s)>>,
         cfg     |-> IF verbose THEN c ELSE UpdateFromState(c, state),
         ret     |-> state,
         result  |-> StatusOutcome(s),
         printed |-> IF verbose THEN 2 + Cardinality(Fields) ELSE 0]
GetStateOutcome(verbose, c, d, s) ==
    LET state == StateDict(DeviceGet(d))
    IN  [calls   |-> <<GetCall(DeviceGet(d), s)>>,
         cfg     |-> UpdateFromState(c, state),
         ret     |-> state,
         result  |-> StatusOutcome(s),
         printed |-> IF verbose THEN 2 + Cardinality(Fields) ELSE 0]

\* DS8R.get_state, lines 260-332.
get_state(verbose) ==
    /\ hasCtl
    /\ Called("get_state", verbose)
    /\ OneCaller
    /\ IF HasEntryPoints(dll)
       THEN \E s \in Statuses :
               /\ calls' = GetStateOutcome(verbose, cfg, dev, s).calls
               /\ cfg' = GetStateOutcome(verbose, cfg, dev, s).cfg
               /\ ret' = GetStateOutcome(verbose, cfg, dev, s).ret
               /\ result' = GetStateOutcome(verbose, cfg, dev, s).result
       ELSE /\ calls' = <<>>
            /\ result' = "AttributeError"
            /\ ret' = ZeroCfg
            /\ UNCHANGED cfg
    /\ dllArg' = NoDll
    /\ UNCHANGED <<dll_loaded, dll, defined, loadCount, defineCount, hasCtl, dev>>

\* run() with the upload made before the interlock is looked at.
run_UploadFirst(force) ==
    /\ hasCtl
    /\ Called("run", force)
    /\ OneCaller
    /\ IF ~HasEntryPoints(dll)
       THEN /\ calls' = <<>>
            /\ result' = "AttributeError"
            /\ UNCHANGED dev
       ELSE \E s1, s2 \in Statuses :
               /\ dev' = DeviceSet(dev, UploadArgs(cfg))
               /\ IF InterlockPasses(cfg, force)
                  THEN /\ calls' = <<SetCall(UploadArgs(cfg), s1),
                                     TriggerCall(DeviceSet(dev, UploadArgs(cfg)), s2)>>
                       /\ result' = "ok"
                  ELSE /\ calls' = <<SetCall(UploadArgs(cfg), s1)>>
                       /\ result' = "ValueError"
    /\ UNCHANGED <<dll_loaded, dll, defined, loadCount, defineCount, hasCtl, cfg>>
    /\ NoReturn

\* run() with lines 354 and 355 swapped: the pulse fires before the upload.
run_TriggerFirst(force) ==
    /\ hasCtl
    /\ Called("run", force)
    /\ OneCaller
    /\ IF ~InterlockPasses(cfg, force)
       THEN /\ calls' = <<>>
            /\ result' = "ValueError"
            /\ UNCHANGED dev
       ELSE IF HasEntryPoints(dll)
       THEN \E s1, s2 \in Statuses :
               /\ dev' = DeviceSet(dev, UploadArgs(cfg))
               /\ calls' = <<TriggerCall(dev, s2), SetCall(UploadArgs(cfg), s1)>>
               /\ result' = "ok"
       ELSE /\ calls' = <<>>
            /\ result' = "AttributeError"
            /\ UNCHANGED dev
    /\ UNCHANGED <<dll_loaded, dll, defined, loadCount, defineCount, hasCtl, cfg>>
    /\ NoReturn

\* DS8R.run, lines 334-360.
run(force) ==
    /\ hasCtl
    /\ Called("run", force)
    /\ OneCaller
    /\ IF ~InterlockPasses(cfg, force)
       THEN /\ calls' = <<>>
            /\ result' = "ValueError"
            /\ UNCHANGED dev
       ELSE IF HasEntryPoints(dll)
       THEN \E s1, s2 \in Statuses :
               /\ dev' = DeviceSet(dev, UploadArgs(cfg))
               /\ IF StatusOutcome(s1) = "ok"
                  THEN /\ calls' = <<SetCall(UploadArgs(cfg), s1),
                                     TriggerCall(DeviceSet(dev, UploadArgs(cfg)), s2)>>
                       /\ result' = StatusOutcome(s2)
                  ELSE /\ calls' = <<SetCall(UploadArgs(cfg), s1)>>
                       /\ result' = StatusOutcome(s1)
       ELSE /\ calls' = <<>>
            /\ result' = "AttributeError"
            /\ UNCHANGED dev
    /\ UNCHANGED <<dll_loaded, dll, defined, loadCount, defineCount, hasCtl, cfg>>
    /\ NoReturn

Next ==
    \/ \E c \in CtorConfigs, p \in DllPaths : Construct(c, p)
    \/ \E f \in Fields : \E v \in FieldVals(f) : Assign(f, v)
    \/ upload_parameters
    \/ trigger_pulse
    \/ \E e \in BOOLEAN : set_enabled(e)
    \/ \E v \in BOOLEAN : get_state(v)
    \/ \E f \in BOOLEAN : run(f)

Spec == Init /\ [][Next]_vars

----------------------------------------------------------------------------
\* Several threads inside DS8R.__init__ at once.  The class attributes
\* DS8R._dll and DS8R._dll_loaded are shared and nothing in lines 134-143
\* holds a lock, so the threads interleave between the statements.

\* What the thread steps leave alone: the caller-side record of method calls
\* and the device.
ThreadFrame ==
    UNCHANGED <<hasCtl, cfg, dev, op, arg, dllArg, result, calls, ret,
                preCfg, preDev, prevFailed, pcA, cfgB, interleaved>>

\* Lines 122-131: the thread enters __init__ and writes its own attributes.
T_Enter(t, c, p) ==
    /\ thr[t].pc = "none"
    /\ thr' = [thr EXCEPT ![t] = [pc |-> "check", path |-> p, cfg |-> c]]
    /\ UNCHANGED <<dll_loaded, dll, defined, loadCount, defineCount>>
    /\ ThreadFrame

\* Line 134: the class flag is read.
T_Check(t) ==
    /\ thr[t].pc = "check"
    /\ thr' = [thr EXCEPT ![t].pc = IF NeedsLoad(dll_loaded) THEN "load" ELSE "done"]
    /\ UNCHANGED <<dll_loaded, dll, defined, loadCount, defineCount>>
    /\ ThreadFrame

\* Lines 135-141: the path is resolved and checked, the DLL is loaded and
\* the handle is stored in DS8R._dll.
T_Load(t) ==
    /\ thr[t].pc = "load"
    /\ IF ~FileExists(ResolvePath(thr[t].path))
       THEN /\ thr' = [thr EXCEPT ![t].pc = "FileNotFoundError"]
            /\ UNCHANGED <<dll, loadCount>>
       ELSE IF ~Loadable(ResolvePath(thr[t].path))
       THEN /\ thr' = [thr EXCEPT ![t].pc = "OSError"]
            /\ UNCHANGED <<dll, loadCount>>
       ELSE /\ dll' = ResolvePath(thr[t].path)
            /\ loadCount' = loadCount + 1
            /\ thr' = [thr EXCEPT ![t].pc = "flag"]
    /\ UNCHANGED <<dll_loaded, defined, defineCount>>
    /\ ThreadFrame

\* Line 142: DS8R._dll_loaded = True.
T_SetFlag(t) ==
    /\ thr[t].pc = "flag"
    /\ dll_loaded' = TRUE
    /\ thr' = [thr EXCEPT ![t].pc = "define"]
    /\ UNCHANGED <<dll, defined, loadCount, defineCount>>
    /\ ThreadFrame

\* Line 143, _define_functions (lines 147-176), on whatever handle DS8R._dll
\* holds by now.
T_Define(t) ==
    /\ thr[t].pc = "define"
    /\ IF HasEntryPoints(dll)
       THEN /\ defined' = TRUE
            /\ defineCount' = defineCount + 1
            /\ thr' = [thr EXCEPT ![t].pc = "done"]
       ELSE /\ thr' = [thr EXCEPT ![t].pc = "AttributeError"]
            /\ UNCHANGED <<defined, defineCount>>
    /\ UNCHANGED <<dll_loaded, dll, loadCount>>
    /\ ThreadFrame

NextThreads ==
    \/ \E t \in Threads, c \in CtorConfigs, p \in DllPaths : T_Enter(t, c, p)
    \/ \E t \in Threads : T_Check(t)
    \/ \E t \in Threads : T_Load(t)
    \/ \E t \in Threads : T_SetFlag(t)
    \/ \E t \in Threads : T_Define(t)

SpecThreads == Init /\ [][NextThreads]_vars

----------------------------------------------------------------------------
\* Two controllers, each driven by its own thread, on the one device.  Both
\* were constructed before; the module is loaded and bound.  The first
\* controller's run() is followed call by call; nothing in the class holds a
\* lock around the device calls, so the second controller's calls fall
\* between them.

\* Demand values the two callers assign.
TwoDemands == {10, 20, 150}

InitTwo ==
    /\ dll_loaded = TRUE
    /\ dll = ResolvePath("None")
    /\ defined = TRUE
    /\ loadCount = 1
    /\ defineCount = 1
    /\ hasCtl = TRUE
    /\ cfg = [Defaults EXCEPT !.demand = 10]
    /\ cfgB \in {Defaults, [Defaults EXCEPT !.demand = 150]}
    /\ dev \in InitialDevice
    /\ op = "start"
    /\ arg = FALSE
    /\ dllArg = NoDll
    /\ result = "ok"
    /\ calls = <<>>
    /\ ret = ZeroCfg
    /\ preCfg = cfg
    /\ preDev = dev
    /\ prevFailed = FALSE
    /\ thr = [t \in Threads |-> [pc |-> "none", path |-> NoDll, cfg |-> ZeroCfg]]
    /\ pcA = "idle"
    /\ interleaved = FALSE

\* What no step of the two callers changes.
LoadedFrame ==
    UNCHANGED <<dll_loaded, dll, defined, loadCount, defineCount, hasCtl, thr>>

\* What the second controller's steps leave alone: the first controller and
\* the record of its calls.
FrameB ==
    /\ LoadedFrame
    /\ UNCHANGED <<cfg, op, arg, dllArg, result, calls, ret, preCfg, preDev,
                   prevFailed, pcA>>

\* The second controller's DGD128_Set call with attributes c (line 197).
DeviceSetB(c) ==
    /\ dev' = DeviceSet(dev, UploadArgs(c))
    /\ interleaved' = (interleaved \/ pcA = "uploaded")

\* First controller: device.demand = v between two calls.
A_Assign(v) ==
    /\ pcA = "idle"
    /\ Assign("demand", v)

\* First controller, run(force), lines 352-354: the interlock, then
\* upload_parameters().
A_RunUpload(force) ==
    /\ pcA = "idle"
    /\ Called("run", force)
    /\ IF ~InterlockPasses(cfg, force)
       THEN /\ calls' = <<>>
            /\ result' = "ValueError"
            /\ UNCHANGED <<dev, pcA>>
       ELSE \E s1 \in Statuses :
               /\ calls' = <<SetCall(UploadArgs(cfg), s1)>>
               /\ dev' = DeviceSet(dev, UploadArgs(cfg))
               /\ IF StatusOutcome(s1) = "ok"
                  THEN result' = "pending" /\ pcA' = "uploaded"
                  ELSE result' = StatusOutcome(s1) /\ UNCHANGED pcA
    /\ interleaved' = FALSE
    /\ NoReturn
    /\ LoadedFrame
    /\ UNCHANGED <<cfg, cfgB>>

\* First controller, run(force), line 355: trigger_pulse().  The pulse fires
\* with the configuration resident on the device at this moment.
A_RunTrigger ==
    /\ pcA = "uploaded"
    /\ \E s2 \in Statuses :
          /\ calls' = Append(calls, TriggerCall(dev, s2))
          /\ result' = StatusOutcome(s2)
    /\ pcA' = "idle"
    /\ LoadedFrame
    /\ UNCHANGED <<cfg, dev, op, arg, dllArg, ret, preCfg, preDev, prevFailed,
                   cfgB, interleaved>>

\* Second controller: device.demand = v.
B_Assign(v) ==
    /\ cfgB' = [cfgB EXCEPT !.demand = v]
    /\ UNCHANGED <<dev, interleaved>>
    /\ FrameB

\* Second controller: upload_parameters(), lines 178-215, called directly or
\* by run(force=True) (lines 353-354); the pulse that run() then fires changes
\* nothing the first controller sees.
B_upload_parameters(viaRun) ==
    /\ viaRun => InterlockPasses(cfgB, TRUE)
    /\ DeviceSetB(cfgB)
    /\ UNCHANGED cfgB
    /\ FrameB

\* Second controller: set_enabled(enabled), lines 236-258.
B_set_enabled(enabled) ==
    /\ cfgB' = [cfgB EXCEPT !.enabled = EnabledValue(enabled)]
    /\ DeviceSetB(cfgB')
    /\ FrameB

NextTwo ==
    \/ \E v \in TwoDemands : A_Assign(v)
    \/ \E f \in BOOLEAN : A_RunUpload(f)
    \/ A_RunTrigger
    \/ \E v \in TwoDemands : B_Assign(v)
    \/ \E r \in BOOLEAN : B_upload_parameters(r)
    \/ \E e \in BOOLEAN : B_set_enabled(e)

SpecTwo == InitTwo /\ [][NextTwo]_vars

----------------------------------------------------------------------------
\* The names of the device calls of the last method, in order.
CallNames == [i \in 1..Len(calls) |-> calls[i].fn]

\* The last method ran on a handle that exports the three entry points.
Bound == HasEntryPoints(dll)

----------------------------------------------------------------------------
\* C1: for every demand d in 1..150, run(force=False) uploads and then
\* triggers exactly when d <= 100 and raises the interlock error exactly when
\* d > 100.
C1_RunBoundaryAt100 ==
    (op = "run" /\ ~arg /\ Bound /\ preCfg.demand \in 1..150) =>
        IF preCfg.demand <= InterlockLimit
        THEN result = "ok" /\ CallNames = <<"set", "trigger">>
        ELSE result = "ValueError" /\ calls = <<>>

\* C2: run(force=False) on a controller holding the default attributes calls
\* DGD128_Set once with (1, 1, 1, 20, 100, 1, 100, 1), then DGD128_Trigger
\* once, and raises nothing.
C2_DefaultRunUploadsAndTriggers ==
    (op = "run" /\ ~arg /\ Bound /\ preCfg = Defaults) =>
        /\ result = "ok"
        /\ CallNames = <<"set", "trigger">>
        /\ calls[1].args = Defaults

\* A device call of the last method that carries, or fires under, a demand
\* above the safety threshold.
HighDemandCall(i) ==
    \/ calls[i].fn = "set" /\ calls[i].args.demand > SafetyThreshold
    \/ calls[i].fn = "trigger" /\ preCfg.demand > SafetyThreshold

\* C3 as stated: no method makes a DGD128_Set call carrying a demand above the
\* safety threshold, or a DGD128_Trigger call while the local demand is above
\* it, unless it is run(force=True).
C3_NoHighDemandCallWithoutForce ==
    \A i \in 1..Len(calls) : HighDemandCall(i) => (op = "run" /\ arg)

\* C3 as amended: a run() call makes such a device call only when it was given
\* force=True (upload_parameters, trigger_pulse and set_enabled are not
\* guarded).
C3_RunHighDemandOnlyWhenForced ==
    (op = "run" /\ \E i \in 1..Len(calls) : HighDemandCall(i)) => arg

C3_Witness ==
    /\ op = "run" /\ arg /\ result = "ok"
    /\ Len(calls) = 2
    /\ HighDemandCall(1) /\ HighDemandCall(2)

\* C4: a run(force=False) that raises the interlock error makes no device call
\* and leaves the eight attributes and the device-resident configuration as
\* they were; a run(force=True) that immediately follows it uploads that same
\* configuration and triggers.
C4_FailedRunIntactThenForcedRetry ==
    /\ (op = "run" /\ result = "ValueError") =>
           (~arg /\ calls = <<>> /\ cfg = preCfg /\ dev = preDev)
    /\ (op = "run" /\ arg /\ prevFailed /\ Bound) =>
           /\ result = "ok"
           /\ CallNames = <<"set", "trigger">>
           /\ calls[1].args = preCfg
           /\ cfg = preCfg

C4_Witness ==
    /\ op = "run" /\ arg /\ prevFailed /\ result = "ok"
    /\ preCfg.demand = 150
    /\ preDev.demand # 150
    /\ calls[1].args.demand = 150

\* C5: run(force=True) uploads and then triggers for every demand value, also
\* above every limit, and never raises the interlock error.
C5_ForcedRunNeverInterlocked ==
    (op = "run" /\ arg) =>
        /\ result # "ValueError"
        /\ Bound => /\ result = "ok"
                    /\ CallNames = <<"set", "trigger">>
                    /\ calls[1].args.demand = preCfg.demand

C5_Witness ==
    /\ op = "run" /\ arg /\ result = "ok"
    /\ preCfg.demand = 151
    /\ CallNames = <<"set", "trigger">>

\* C6: after get_state() each of the eight attributes equals the value the
\* device reported in that call, whatever the attributes were before, and the
\* returned dict equals the new attributes field for field.
C6_GetStateReplacesAll ==
    (op = "get_state" /\ result = "ok") =>
        /\ CallNames = <<"get">>
        /\ \A f \in Fields : cfg[f] = calls[1].args[f] /\ ret[f] = cfg[f]

C6_Witness ==
    /\ op = "get_state" /\ result = "ok"
    /\ preCfg.demand # preDev.demand
    /\ preCfg.mode # preDev.mode
    /\ preCfg.enabled # preDev.enabled
    /\ cfg = preDev

\* C7: set_enabled(flag) leaves enabled = 1 for a true flag and 0 for a false
\* one, calls DGD128_Set exactly once, never calls DGD128_Trigger and changes
\* no other attribute.
C7_SetEnabledLocalEffect ==
    (op = "set_enabled" /\ Bound) =>
        /\ cfg.enabled = (IF arg THEN 1 ELSE 0)
        /\ CallNames = <<"set">>
        /\ \A f \in Fields \ {"enabled"} : cfg[f] = preCfg[f]

C7_Witness ==
    /\ op = "set_enabled" /\ ~arg /\ result = "ok"
    /\ preCfg.enabled = 1 /\ cfg.enabled = 0
    /\ calls[1].args.enabled = 0

\* C8: upload_parameters() calls DGD128_Set only with a configuration whose
\* every field is inside its documented domain.
C8_UploadOnlyInDomain ==
    op = "upload_parameters" =>
        \A i \in 1..Len(calls) : calls[i].fn = "set" => InDomain(calls[i].args)

\* C9: set_enabled(flag) changes only the enabled value on the device: the
\* other seven device-resident fields are what they were before the call.
C9_SetEnabledDeviceFrame ==
    (op = "set_enabled" /\ result = "ok") =>
        \A f \in Fields \ {"enabled"} : dev[f] = preDev[f]

\* C10: the native module is loaded at most once: a controller exists only
\* once it is loaded, and once it is loaded no construction, whatever its
\* dll_path, loads again or replaces the class-level handle.
C10_LoadedAtMostOnce ==
    /\ [](loadCount <= 1 /\ (hasCtl => dll_loaded /\ loadCount = 1))
    /\ [][dll_loaded => (dll_loaded' /\ dll' = dll /\ loadCount' = loadCount)]_vars

C10_Witness ==
    /\ op = "__init__" /\ result = "ok"
    /\ dll_loaded /\ loadCount = 1
    /\ ResolvePath(dllArg) # dll
    /\ preCfg # ZeroCfg

\* C12: a construction succeeds only if the native module is loaded and its
\* three entry points are bound; while the module is unloaded or unbound no
\* construction, the first or a later one, succeeds.
C12_ConstructionNeedsBoundModule ==
    (op = "__init__" /\ result = "ok") =>
        (dll_loaded /\ defined /\ HasEntryPoints(dll))

\* C13: run(force=False) raises exactly when demand is above 124 (12.4 mA):
\* demand 124 and below uploads and triggers, 125 and above raises.
C13_RunBoundaryAt124 ==
    (op = "run" /\ ~arg /\ Bound) =>
        IF preCfg.demand <= SafetyThreshold
        THEN result = "ok" /\ CallNames = <<"set", "trigger">>
        ELSE result = "ValueError" /\ calls = <<>>

\* C14: a run() that passes the interlock makes exactly one DGD128_Set call and
\* then exactly one DGD128_Trigger call, whatever status the set returned; no
\* run() triggers before or without its own set.
C14_RunSetThenTrigger ==
    op = "run" =>
        /\ (result # "ValueError" /\ Bound) => CallNames = <<"set", "trigger">>
        /\ \A i \in 1..Len(calls) :
               calls[i].fn = "trigger" => (i = 2 /\ calls[1].fn = "set")

C14_Witness ==
    /\ op = "run" /\ ~arg /\ result = "ok"
    /\ CallNames = <<"set", "trigger">>
    /\ calls[1].status = -1

\* The attributes the last method leaves, from what it started with and what
\* the device reported, with no regard to any status code.
ExpectedLocal ==
    CASE op = "set_enabled" -> [preCfg EXCEPT !.enabled = IF arg THEN 1 ELSE 0]
      [] op = "get_state"   -> calls[1].args
      [] OTHER              -> preCfg

\* C15: whatever status codes its device calls return (negative, zero or
\* positive), upload_parameters, trigger_pulse, set_enabled, get_state and
\* run raise nothing, and the attributes they leave do not depend on the code.
C15_StatusNeverRaises ==
    (/\ op \in {"upload_parameters", "trigger_pulse", "set_enabled",
                "get_state", "run"}
     /\ Len(calls) > 0) =>
        /\ result = "ok"
        /\ cfg = ExpectedLocal

C15_Witness ==
    /\ op = "run" /\ result = "ok"
    /\ Len(calls) = 2
    /\ calls[1].status = -1
    /\ calls[2].status = 1

\* C16: upload_parameters() and trigger_pulse() leave the eight attributes
\* unchanged and never call DGD128_Get; trigger_pulse() never calls DGD128_Set
\* and leaves the device-resident configuration unchanged.
C16_UploadTriggerFrame ==
    /\ op \in {"upload_parameters", "trigger_pulse"} =>
           /\ cfg = preCfg
           /\ \A i \in 1..Len(calls) : calls[i].fn # "get"
    /\ op = "trigger_pulse" =>
           /\ \A i \in 1..Len(calls) : calls[i].fn # "set"
           /\ dev = preDev

C16_Witness ==
    /\ op = "trigger_pulse" /\ result = "ok"
    /\ CallNames = <<"trigger">>
    /\ cfg.demand # dev.demand

\* C17: get_state(verbose=True) and get_state(verbose=False) from the same
\* attributes and device state make the same device calls, leave the same
\* attributes and return the same dict: what the last get_state did is what
\* the call with the other verbose value does from the state it started in.
C17_VerboseChangesNothing ==
    (op = "get_state" /\ Bound) =>
        LET other == GetStateOutcome(~arg, preCfg, preDev, calls[1].status)
        IN  /\ calls = other.calls
            /\ cfg = other.cfg
            /\ ret = other.ret
            /\ result = other.result
            /\ dev = preDev

C17_Witness ==
    /\ op = "get_state" /\ arg /\ result = "ok"
    /\ preCfg.demand # preDev.demand
    /\ cfg = preDev
    /\ ret = preDev

C11_ConcurrentLoadOnce ==
    /\ loadCount <= 1
    /\ defineCount <= 1
    /\ (\A t \in Threads : thr[t].pc = "done") => (loadCount = 1 /\ defineCount = 1)

\* A pulse the last run(force=False) of the first controller fired.
PulseOfUnforcedRun ==
    op = "run" /\ ~arg /\ Len(calls) = 2 /\ calls[2].fn = "trigger"

\* The pulse fired with the configuration that run() uploaded, whose demand is
\* within the interlock limit.
FiredAsUploaded ==
    /\ calls[2].args = calls[1].args
    /\ calls[2].args.demand <= InterlockLimit

\* C19 as stated: every pulse fired by a run(force=False) fires while the
\* device holds the configuration that same run() uploaded, so with a demand
\* within the interlock limit, also when a second controller's calls
\* interleave.
C19_PulseFiresUploadedConfig == PulseOfUnforcedRun => FiredAsUploaded

\* C19 as amended: it does so when no DGD128_Set call of another controller
\* falls between that run()'s upload and its trigger.
C19_PulseFiresUploadedUnlessInterleaved ==
    (PulseOfUnforcedRun /\ ~interleaved) => FiredAsUploaded

C19_Witness ==
    /\ PulseOfUnforcedRun /\ ~interleaved
    /\ preDev.demand = 150
    /\ cfgB.demand = 150
    /\ calls[2].args.demand = 10

====
